---------------------------- MODULE Spec2Model ----------------------------
(***************************************************************************)
(* Model of the Schedules Direct client: the session token, the transport  *)
(* core (Client.SendRequest with its token refresh and single retry) and   *)
(* the chunked bulk endpoints.                                             *)
(*                                                                         *)
(* Time is counted in hours.  SendRequest has a value receiver, so every   *)
(* call works on its own copy `c` of the client; GetToken has a pointer    *)
(* receiver and writes TokenExpiresAt of the value it is called on.        *)
(***************************************************************************)
EXTENDS Integers, Sequences, FiniteSets, TLC

VARIABLES
    now,        \* the wall clock, time.Now()
    client,     \* the *Client the caller holds (constructed by NewClient)
    pc,         \* per caller: position of its SendRequest call
    c,          \* per caller: the receiver copy inside SendRequest
    req,        \* per caller: the *http.Request handed to SendRequest
    result,     \* per caller: what SendRequest returned
    depth,      \* per caller: recursion depth of SendRequest
    hist,       \* per caller: what the call did on the network so far
    granted,    \* the token reply NewClient built the client from
    bulk,       \* the chunked bulk endpoint call in progress
    codec,      \* the last JSON conversion made and what came of it
    past        \* per caller: whether its previous SendRequest call failed

vars == <<now, client, pc, c, req, result, depth, hist, granted, bulk, codec, past>>

---------------------------------------------------------------------------
(* Bounds of the model *)

MaxTime == 48
ClockStep == 12
MaxChunks == 2
ExampleSize == 1200

(* Program constants *)

ErrOK == 0
ErrInvalidUser == 4003
ErrDuplicateLineup == 2100
TokenValidity == 24
MaxOKStatus == 399
ArtworkChunkSize == 500
ProgramChunkSize == 5000

---------------------------------------------------------------------------
(* Values *)

Callers == {"a", "b"}
SeqCallers == {"a"}

Tokens == {"", "t1", "t2"}
ServerTimes == {t \in 0..MaxTime : t % ClockStep = 0 /\ t <= ClockStep}
StatusCodes == {200, 399, 400}
Codes == {ErrOK, ErrInvalidUser, ErrDuplicateLineup}

NoClient == [constructed |-> FALSE, Token |-> "", TokenExpiresAt |-> 0,
             failedRequests |-> 0]

\* The requests the endpoint methods build: verb, body, needsToken.
Requests ==
    { [method |-> "GET", hasBody |-> FALSE, needsToken |-> TRUE],
      [method |-> "GET", hasBody |-> FALSE, needsToken |-> FALSE],
      [method |-> "POST", hasBody |-> TRUE, needsToken |-> TRUE],
      [method |-> "POST", hasBody |-> TRUE, needsToken |-> FALSE],
      [method |-> "PUT", hasBody |-> FALSE, needsToken |-> TRUE],
      [method |-> "DELETE", hasBody |-> FALSE, needsToken |-> TRUE] }

\* What the token endpoint can answer to GetToken.
AuthReplies ==
    { [kind |-> k, code |-> ErrOK, token |-> "", time |-> 0] :
          k \in {"transport", "read", "badjson", "nilenvelope"} }
    \cup { [kind |-> "envelope", code |-> ErrInvalidUser, token |-> "", time |-> 0] }
    \cup { [kind |-> "envelope", code |-> ErrOK, token |-> t, time |-> s] :
               t \in Tokens, s \in ServerTimes }

\* What the service can answer to the request: a failure below the body, or a
\* status with a body that parses as the generic envelope (with a code) or not.
Replies ==
    { [fail |-> f, status |-> 200, parses |-> FALSE, code |-> ErrOK] :
          f \in {"transport", "gzip", "copy", "close"} }
    \cup { [fail |-> "none", status |-> s, parses |-> FALSE, code |-> ErrOK] :
               s \in StatusCodes }
    \cup { [fail |-> "none", status |-> s, parses |-> TRUE, code |-> k] :
               s \in StatusCodes, k \in Codes }

NoResult == [kind |-> "none", code |-> 0, status |-> 0]
Failure(k) == [kind |-> k, code |-> 0, status |-> 0]
ServiceError(code) == [kind |-> "service", code |-> code, status |-> 0]
HTTPError(status) == [kind |-> "http", code |-> 0, status |-> status]
Success == [kind |-> "ok", code |-> 0, status |-> 0]

NoRequest == [method |-> "", hasBody |-> FALSE, needsToken |-> FALSE,
              token |-> "", tokenSet |-> FALSE, contentType |-> FALSE,
              bodyRead |-> FALSE]

\* auths: the GetToken calls (why, and the reply); sent: the requests as they
\* left; replies: their answers; log: "auth" and "send" in the order they
\* happened; at: the time.Now() the call last compared with TokenExpiresAt
\* (-1 before it did).
NoHist == [auths |-> <<>>, sent |-> <<>>, replies |-> <<>>, log |-> <<>>,
           at |-> -1]

NoGrant == [kind |-> "none", code |-> 0, token |-> "", time |-> 0]

NoCodec == [op |-> "none"]

AuthEvent(h, why, ar) ==
    [h EXCEPT !.auths = Append(@, [why |-> why, reply |-> ar]),
              !.log = Append(@, "auth")]

SendEvent(h, wire, r) ==
    [h EXCEPT !.sent = Append(@, wire), !.replies = Append(@, r),
              !.log = Append(@, "send")]

---------------------------------------------------------------------------
(* Client.GetToken *)

\* Faulty variant: the validity window is not added.
TokenExpiryNoWindow(dateTime) == dateTime

\* c.TokenExpiresAt = r.BaseResponse.DateTime.Add(24 * time.Hour)
TokenExpiry(dateTime) == dateTime + TokenValidity

\* Faulty variant: the expiry time is stored before the envelope's code is
\* looked at, so an error envelope moves it as well.
GetTokenStoresFirst(cl, ar) ==
    CASE ar.kind = "transport" -> [err |-> "transport", code |-> 0, token |-> "", c |-> cl]
      [] ar.kind = "read" -> [err |-> "read", code |-> 0, token |-> "", c |-> cl]
      [] ar.kind = "badjson" -> [err |-> "badjson", code |-> 0, token |-> "", c |-> cl]
      [] ar.kind = "nilenvelope" -> [err |-> "panic", code |-> 0, token |-> "", c |-> cl]
      [] ar.kind = "envelope" /\ ar.code # ErrOK ->
            [err |-> "service", code |-> ar.code, token |-> "",
             c |-> [cl EXCEPT !.TokenExpiresAt = TokenExpiry(ar.time)]]
      [] OTHER ->
            [err |-> "none", code |-> 0, token |-> ar.token,
             c |-> [cl EXCEPT !.TokenExpiresAt = TokenExpiry(ar.time)]]

\* GetToken called on client value cl, the token endpoint answering ar:
\* the error it returns (or "none"), the token, and cl as it leaves it.
GetToken(cl, ar) ==
    CASE ar.kind = "transport" -> [err |-> "transport", code |-> 0, token |-> "", c |-> cl]
      [] ar.kind = "read" -> [err |-> "read", code |-> 0, token |-> "", c |-> cl]
      [] ar.kind = "badjson" -> [err |-> "badjson", code |-> 0, token |-> "", c |-> cl]
      [] ar.kind = "nilenvelope" -> [err |-> "panic", code |-> 0, token |-> "", c |-> cl]
      [] ar.kind = "envelope" /\ ar.code # ErrOK ->
            [err |-> "service", code |-> ar.code, token |-> "", c |-> cl]
      [] OTHER ->
            [err |-> "none", code |-> 0, token |-> ar.token,
             c |-> [cl EXCEPT !.TokenExpiresAt = TokenExpiry(ar.time)]]

\* Faulty variant: only an error envelope counts as a failed GetToken.
GetTokenFailedOnlyService(g) == g.err = "service"

\* tokenErr != nil (a nil envelope makes GetToken panic instead of returning)
GetTokenFailed(g) == g.err # "none"

---------------------------------------------------------------------------
(* NewClient *)

NewClient(ar) ==
    /\ ~client.constructed
    /\ LET fresh == [NoClient EXCEPT !.constructed = TRUE]
           g == GetToken(fresh, ar)
       IN  /\ client' = IF GetTokenFailed(g) THEN client
                        ELSE [g.c EXCEPT !.Token = g.token]
           /\ granted' = IF GetTokenFailed(g) THEN granted ELSE ar
    /\ UNCHANGED <<now, pc, c, req, result, depth, hist, bulk, codec, past>>

---------------------------------------------------------------------------
(* The wall clock *)

Tick ==
    /\ now + ClockStep <= MaxTime
    /\ now' = now + ClockStep
    /\ UNCHANGED <<client, pc, c, req, result, depth, hist, granted, bulk, codec, past>>

---------------------------------------------------------------------------
(* Client.SendRequest *)

\* Faulty variant: the token check is skipped once a token was ever expired.
MissingTokenLate(needsToken, cl) ==
    needsToken /\ cl.Token = "" /\ cl.failedRequests > 0

\* needsToken && c.Token == ""
MissingToken(needsToken, cl) == needsToken /\ cl.Token = ""

\* Faulty variant: the refresh is not guarded by the failure counter.
NeedsRefreshUnguarded(t, cl) == t > cl.TokenExpiresAt

\* Faulty variant: the token counts as expired from the instant of its expiry.
NeedsRefreshAtExpiry(t, cl) ==
    t >= cl.TokenExpiresAt /\ cl.failedRequests = 0

\* Faulty variant: a renewal under way in any send call keeps the others from
\* starting one of their own.
NeedsRefreshExclusive(t, cl) ==
    /\ t > cl.TokenExpiresAt
    /\ cl.failedRequests = 0
    /\ \A q \in Callers : hist[q].auths = <<>>

\* time.Now().After(c.TokenExpiresAt) && c.failedRequests == 0
NeedsRefresh(t, cl) == t > cl.TokenExpiresAt /\ cl.failedRequests = 0

\* Faulty variant: the header is set for every verb that writes.
SetsContentTypeWriteVerbs(method) == method \in {"POST", "PUT", "DELETE"}

\* request.Method == "POST"
SetsContentType(method) == method = "POST"

\* Faulty variant: the retry is not guarded by the failure counter.
ShouldRetryUnguarded(r, cl) == r.parses /\ r.code = ErrInvalidUser

\* Faulty variant: every service error is retried once.
ShouldRetryAnyCode(r, cl) ==
    r.parses /\ r.code # 0 /\ cl.failedRequests = 0

\* the body unmarshalled into BaseResponse, Code == ErrInvalidUser and
\* c.failedRequests == 0
ShouldRetry(r, cl) ==
    r.parses /\ r.code = ErrInvalidUser /\ cl.failedRequests = 0

\* Faulty variant: the envelope is looked at only under a good status.
IsServiceErrorGoodStatus(r) ==
    r.parses /\ r.code # 0 /\ r.status <= MaxOKStatus

\* the body unmarshalled into BaseResponse and Code != 0
IsServiceError(r) == r.parses /\ r.code # 0

\* Faulty variant: off by one, status 400 passes.
IsErrorStatusAbove400(status) == status > MaxOKStatus + 1

\* response.StatusCode > 399
IsErrorStatus(status) == status > MaxOKStatus

\* Faulty variant: a token header the request already has is kept.
OutgoingKeepsToken(rq, cl) ==
    [rq EXCEPT !.token = IF rq.needsToken /\ ~rq.tokenSet THEN cl.Token ELSE @,
               !.tokenSet = rq.needsToken \/ @,
               !.contentType = SetsContentType(rq.method) \/ @]

\* The request as it leaves in c.HTTP.Do: the headers set before the call.
Outgoing(rq, cl) ==
    [rq EXCEPT !.token = IF rq.needsToken THEN cl.Token ELSE @,
               !.tokenSet = rq.needsToken \/ @,
               !.contentType = SetsContentType(rq.method) \/ @]

\* What one c.HTTP.Do puts on the wire.
Wire(rq) ==
    [token |-> rq.token, tokenSet |-> rq.tokenSet,
     contentType |-> rq.contentType, method |-> rq.method,
     body |-> IF ~rq.hasBody THEN "none"
              ELSE IF rq.bodyRead THEN "drained" ELSE "full"]

Finish(p, res) ==
    /\ pc' = [pc EXCEPT ![p] = "done"]
    /\ result' = [result EXCEPT ![p] = res]

\* An endpoint method calls c.SendRequest(req, needsToken): the receiver is
\* copied.
SendRequest(p, rq) ==
    /\ client.constructed
    /\ pc[p] = "idle"
    /\ pc' = [pc EXCEPT ![p] = "entry"]
    /\ c' = [c EXCEPT ![p] = client]
    /\ req' = [req EXCEPT ![p] =
                 [NoRequest EXCEPT !.method = rq.method, !.hasBody = rq.hasBody,
                                   !.needsToken = rq.needsToken]]
    /\ depth' = [depth EXCEPT ![p] = 1]
    /\ hist' = [hist EXCEPT ![p] = NoHist]
    /\ result' = [result EXCEPT ![p] = NoResult]
    /\ UNCHANGED <<now, client, granted, bulk, codec, past>>

\* The head of SendRequest: the token check and the refresh of an expired
\* token.
Enter(p, ar) ==
    /\ pc[p] = "entry"
    /\ IF MissingToken(req[p].needsToken, c[p])
       THEN /\ Finish(p, Failure("config"))
            /\ UNCHANGED <<c, hist>>
       ELSE IF NeedsRefresh(now, c[p])
       THEN LET c1 == [c[p] EXCEPT !.failedRequests = @ + 1]
                g == GetToken(c1, ar)
                h1 == [hist[p] EXCEPT !.at = now]
            IN  /\ hist' = [hist EXCEPT ![p] = AuthEvent(h1, "expired", ar)]
                /\ IF GetTokenFailed(g)
                   THEN /\ c' = [c EXCEPT ![p] = g.c]
                        /\ Finish(p, [kind |-> IF g.err = "panic" THEN "panic"
                                               ELSE "refresh",
                                      code |-> g.code, status |-> 0])
                   ELSE /\ c' = [c EXCEPT ![p] = [g.c EXCEPT !.Token = g.token]]
                        /\ pc' = [pc EXCEPT ![p] = "send"]
                        /\ UNCHANGED result
       ELSE /\ pc' = [pc EXCEPT ![p] = "send"]
            /\ hist' = [hist EXCEPT ![p].at = now]
            /\ UNCHANGED <<c, result>>
    /\ UNCHANGED <<now, client, req, depth, granted, bulk, codec, past>>

\* The rest of SendRequest: the headers, c.HTTP.Do, reading the body, the
\* envelope, the status.  On the first invalid-credentials envelope the token
\* is fetched again and SendRequest calls itself with the same request.
Exchange(p, r, ar) ==
    /\ pc[p] = "send"
    /\ LET out == Outgoing(req[p], c[p])
           h1 == SendEvent(hist[p], Wire(out), r)
       IN
       /\ req' = [req EXCEPT ![p] = [out EXCEPT !.bodyRead = out.hasBody]]
       /\ IF r.fail = "transport"
          THEN /\ Finish(p, Failure("transport"))
               /\ hist' = [hist EXCEPT ![p] = h1]
               /\ UNCHANGED <<c, depth>>
          ELSE IF r.fail = "gzip"
          THEN /\ Finish(p, Failure("gzip"))
               /\ hist' = [hist EXCEPT ![p] = h1]
               /\ UNCHANGED <<c, depth>>
          ELSE IF r.fail \in {"copy", "close"}
          THEN /\ Finish(p, Failure("read"))
               /\ hist' = [hist EXCEPT ![p] = h1]
               /\ UNCHANGED <<c, depth>>
          ELSE IF ShouldRetry(r, c[p])
          THEN LET c1 == [c[p] EXCEPT !.failedRequests = @ + 1]
                   g == GetToken(c1, ar)
               IN  /\ hist' = [hist EXCEPT ![p] = AuthEvent(h1, "rejected", ar)]
                   /\ IF GetTokenFailed(g)
                      THEN /\ c' = [c EXCEPT ![p] = g.c]
                           /\ Finish(p, [kind |-> IF g.err = "panic" THEN "panic"
                                                  ELSE "reauth",
                                         code |-> g.code, status |-> 0])
                           /\ UNCHANGED depth
                      ELSE /\ c' = [c EXCEPT ![p] = [g.c EXCEPT !.Token = g.token]]
                           /\ pc' = [pc EXCEPT ![p] = "entry"]
                           /\ depth' = [depth EXCEPT ![p] = @ + 1]
                           /\ UNCHANGED result
          ELSE IF IsServiceError(r)
          THEN /\ Finish(p, ServiceError(r.code))
               /\ hist' = [hist EXCEPT ![p] = h1]
               /\ UNCHANGED <<c, depth>>
          ELSE IF IsErrorStatus(r.status)
          THEN /\ Finish(p, HTTPError(r.status))
               /\ hist' = [hist EXCEPT ![p] = h1]
               /\ UNCHANGED <<c, depth>>
          ELSE /\ c' = [c EXCEPT ![p].failedRequests = 0]
               /\ Finish(p, Success)
               /\ hist' = [hist EXCEPT ![p] = h1]
               /\ UNCHANGED depth
    /\ UNCHANGED <<now, client, granted, bulk, codec, past>>

\* Faulty variant: the receiver is shared with the caller (a pointer
\* receiver), so what the call left in it is the client's afterwards.
AfterCallShared(cl, copy) == copy

\* func (c Client) SendRequest: the receiver is a copy, the caller's client
\* is as it was.
AfterCall(cl, copy) == cl

\* SendRequest returns to the endpoint method; its receiver copy is dropped.
Return(p) ==
    /\ pc[p] = "done"
    /\ pc' = [pc EXCEPT ![p] = "idle"]
    /\ client' = AfterCall(client, c[p])
    /\ past' = [past EXCEPT ![p] = (result[p] # Success)]
    /\ c' = [c EXCEPT ![p] = NoClient]
    /\ req' = [req EXCEPT ![p] = NoRequest]
    /\ result' = [result EXCEPT ![p] = NoResult]
    /\ depth' = [depth EXCEPT ![p] = 0]
    /\ hist' = [hist EXCEPT ![p] = NoHist]
    /\ UNCHANGED <<now, granted, bulk, codec>>

---------------------------------------------------------------------------
(* The chunked bulk endpoints: GetArtworkForProgramIDs and GetProgramInfo *)

\* Program IDs are numbered from 1; the record the service returns for an ID
\* is written as the ID, and 0 is the zero value of a record.
IDs(n) == [i \in 1..n |-> i]

Min(a, b) == IF a < b THEN a ELSE b

\* Faulty variant: the loop runs while i <= len(sl).
chunkStringSliceInclusive(sl, chunkSize) ==
    LET RECURSIVE loop(_, _)
        loop(i, divided) ==
            IF i <= Len(sl)
            THEN loop(i + chunkSize,
                      Append(divided, SubSeq(sl, i + 1, Min(i + chunkSize, Len(sl)))))
            ELSE divided
    IN  loop(0, <<>>)

\* for i := 0; i < len(sl); i += chunkSize { divided = append(divided, sl[i:end]) }
chunkStringSlice(sl, chunkSize) ==
    LET RECURSIVE loop(_, _)
        loop(i, divided) ==
            IF i < Len(sl)
            THEN loop(i + chunkSize,
                      Append(divided, SubSeq(sl, i + 1, Min(i + chunkSize, Len(sl)))))
            ELSE divided
    IN  loop(0, <<>>)

Endpoints == {"GetArtworkForProgramIDs", "GetProgramInfo"}

\* len(programIDs) > 500, len(programIDs) > 5000
ChunkSize(e) ==
    IF e = "GetArtworkForProgramIDs" THEN ArtworkChunkSize ELSE ProgramChunkSize

\* allResponses := make([]ArtworkResponse, 0)
\* allResponses := make([]ProgramInfo, len(programIDs))
MakeAllResponses(e, programIDs) ==
    IF e = "GetArtworkForProgramIDs" THEN <<>>
    ELSE [i \in 1..Len(programIDs) |-> 0]

\* What one transport call of a batch comes back with: a record for every
\* ID, the records with the first one missing, or an error (of SendRequest
\* or of json.Unmarshal).
BatchOutcomes == {"all", "short", "error"}

Answer(o, ids) ==
    IF o = "all" \/ ids = <<>> THEN ids ELSE Tail(ids)

\* The sizes of the ID lists tried: around every multiple of the cap, and
\* the 1200 of the example.
BulkSizes(e) ==
    {0, 1, ExampleSize}
    \cup { m * ChunkSize(e) + d : m \in 1..MaxChunks, d \in {-1, 0, 1} }

NoBulk == [pc |-> "idle", endpoint |-> "", programIDs |-> <<>>,
           chunks |-> <<>>, idx |-> 0, allResponses |-> <<>>,
           calls |-> <<>>, answers |-> <<>>, err |-> FALSE, value |-> <<>>]

\* The endpoint method is called: an oversized list is chunked.
BulkCall(e, n) ==
    /\ bulk.pc = "idle"
    /\ LET programIDs == IDs(n)
       IN  bulk' =
             IF Len(programIDs) > ChunkSize(e)
             THEN [NoBulk EXCEPT !.pc = "loop", !.endpoint = e,
                                 !.programIDs = programIDs,
                                 !.allResponses = MakeAllResponses(e, programIDs),
                                 !.chunks = chunkStringSlice(programIDs, ChunkSize(e)),
                                 !.idx = 1]
             ELSE [NoBulk EXCEPT !.pc = "request", !.endpoint = e,
                                 !.programIDs = programIDs]
    /\ UNCHANGED <<now, client, pc, c, req, result, depth, hist, granted, codec, past>>

\* The list is within the cap: one request with all of it.
BulkRequest(o) ==
    /\ bulk.pc = "request"
    /\ bulk' = [bulk EXCEPT
                  !.pc = "done",
                  !.calls = Append(@, bulk.programIDs),
                  !.answers = IF o = "error" THEN @
                              ELSE Append(@, Answer(o, bulk.programIDs)),
                  !.err = (o = "error"),
                  !.value = IF o = "error" THEN <<>>
                            ELSE Answer(o, bulk.programIDs)]
    /\ UNCHANGED <<now, client, pc, c, req, result, depth, hist, granted, codec, past>>

\* Faulty variant: what was accumulated so far is returned with the error.
BatchErrorValuePartial(allResponses) == allResponses

\* return nil, err
BatchErrorValue(allResponses) == <<>>

\* One round of the loop over the chunks: the method calls itself with the
\* chunk, returns nil and the error if that fails, appends otherwise.
BulkChunk(o) ==
    /\ bulk.pc = "loop"
    /\ bulk.idx <= Len(bulk.chunks)
    /\ LET chunk == bulk.chunks[bulk.idx]
       IN  bulk' =
             IF o = "error"
             THEN [bulk EXCEPT !.pc = "done", !.calls = Append(@, chunk),
                               !.err = TRUE,
                               !.value = BatchErrorValue(bulk.allResponses)]
             ELSE [bulk EXCEPT !.calls = Append(@, chunk),
                               !.answers = Append(@, Answer(o, chunk)),
                               !.allResponses = @ \o Answer(o, chunk),
                               !.idx = @ + 1]
    /\ UNCHANGED <<now, client, pc, c, req, result, depth, hist, granted, codec, past>>

\* The loop is over: return allResponses, nil.
BulkReturn ==
    /\ bulk.pc = "loop"
    /\ bulk.idx > Len(bulk.chunks)
    /\ bulk' = [bulk EXCEPT !.pc = "done", !.value = bulk.allResponses]
    /\ UNCHANGED <<now, client, pc, c, req, result, depth, hist, granted, codec, past>>

\* The caller has the result; the next bulk call may start.
BulkReset ==
    /\ bulk.pc = "done"
    /\ bulk' = NoBulk
    /\ UNCHANGED <<now, client, pc, c, req, result, depth, hist, granted, codec, past>>

---------------------------------------------------------------------------
(* ErrorCode: the codes, their wire strings and the JSON decoding          *)

\* A byte string is written as the sequence of its pieces: a piece is one
\* character, or a word of the wire vocabulary kept whole.
Q == "\""
Null == <<"n", "u", "l", "l">>
DigitChars == <<"0", "1", "2", "3", "4", "5", "6", "7", "8", "9">>
IsDigit(ch) == \E d \in 1..10 : DigitChars[d] = ch
DigitValue(ch) == (CHOOSE d \in 1..10 : DigitChars[d] = ch) - 1
Quote(str) == <<Q>> \o str \o <<Q>>

\* The longest run of digits tried; a number of that many digits fits in 32 bits.
MaxDigits == 5

_maxCode == 10000

ErrInvalidJSON == 1001
ErrDeflateRequired == 1002
ErrTokenMissing == 1004
ErrUnsupportedCommand == 2000
ErrRequiredActionMissing == 2001
ErrRequiredRequestMissing == 2002
ErrRequiredParameterMissingCountry == 2004
ErrRequiredParameterMissingPostalCode == 2005
ErrRequiredParameterMissingMessageID == 2006
ErrInvalidParameterCountry == 2050
ErrInvalidParameterPostalCode == 2051
ErrInvalidParameterFetchType == 2052
ErrLineupNotFound == 2101
ErrUnknownLineup == 2102
ErrInvalidLineupDelete == 2103
ErrLineupWrongFormat == 2104
ErrInvalidLineup == 2105
ErrLineupDeleted == 2106
ErrLineupQueued == 2107
ErrInvalidCountry == 2108
ErrStationIDNotFound == 2200
ErrServiceOffline == 3000
ErrAccountExpired == 4001
ErrInvalidHash == 4002
ErrAccountLockout == 4004
ErrAccountDisabled == 4005
ErrTokenExpired == 4006
ErrMaxLineupChangesReached == 4100
ErrMaxLineups == 4101
ErrNoLineups == 4102
ErrImageNotFound == 5000
ErrInvalidProgramID == 6000
ErrProgramIDQueued == 6001
ErrScheduleNotFound == 7000
ErrInvalidScheduleRequest == 7010
ErrScheduleRangeExceeded == 7020
ErrScheduleNotInLineup == 7030
ErrScheduleQueued == 7100
ErrHCF == 9999

\* The codes that are assigned a meaning: the const block.
KnownCodes ==
    { ErrOK, ErrInvalidJSON, ErrDeflateRequired,
      ErrTokenMissing, ErrUnsupportedCommand, ErrRequiredActionMissing,
      ErrRequiredRequestMissing, ErrRequiredParameterMissingCountry, ErrRequiredParameterMissingPostalCode,
      ErrRequiredParameterMissingMessageID, ErrInvalidParameterCountry, ErrInvalidParameterPostalCode,
      ErrInvalidParameterFetchType, ErrDuplicateLineup, ErrLineupNotFound,
      ErrUnknownLineup, ErrInvalidLineupDelete, ErrLineupWrongFormat,
      ErrInvalidLineup, ErrLineupDeleted, ErrLineupQueued,
      ErrInvalidCountry, ErrStationIDNotFound, ErrServiceOffline,
      ErrAccountExpired, ErrInvalidHash, ErrInvalidUser,
      ErrAccountLockout, ErrAccountDisabled, ErrTokenExpired,
      ErrMaxLineupChangesReached, ErrMaxLineups, ErrNoLineups,
      ErrImageNotFound, ErrInvalidProgramID, ErrProgramIDQueued,
      ErrScheduleNotFound, ErrInvalidScheduleRequest, ErrScheduleRangeExceeded,
      ErrScheduleNotInLineup, ErrScheduleQueued, ErrHCF }

\* var strToCode = map[string]ErrorCode{ `"OK"`: ErrOK, ... }
strToCode ==
    { <<Quote(<<"OK">>), ErrOK>>,
      <<Quote(<<"INVALID_JSON">>), ErrInvalidJSON>>,
      <<Quote(<<"DEFLATE_REQUIRED">>), ErrDeflateRequired>>,
      <<Quote(<<"TOKEN_MISSING">>), ErrTokenMissing>>,
      <<Quote(<<"UNSUPPORTED_COMMAND">>), ErrUnsupportedCommand>>,
      <<Quote(<<"REQUIRED_ACTION_MISSING">>), ErrRequiredActionMissing>>,
      <<Quote(<<"REQUIRED_REQUEST_MISSING">>), ErrRequiredRequestMissing>>,
      <<Quote(<<"REQUIRED_PARAMETER_MISSING:COUNTRY">>), ErrRequiredParameterMissingCountry>>,
      <<Quote(<<"REQUIRED_PARAMETER_MISSING:POSTALCODE">>), ErrRequiredParameterMissingPostalCode>>,
      <<Quote(<<"REQUIRED_PARAMETER_MISSING:MSGID">>), ErrRequiredParameterMissingMessageID>>,
      <<Quote(<<"INVALID_PARAMETER:COUNTRY">>), ErrInvalidParameterCountry>>,
      <<Quote(<<"INVALID_PARAMETER:POSTALCODE">>), ErrInvalidParameterPostalCode>>,
      <<Quote(<<"INVALID_PARAMETER:FETCHTYPE">>), ErrInvalidParameterFetchType>>,
      <<Quote(<<"DUPLICATE_LINEUP">>), ErrDuplicateLineup>>,
      <<Quote(<<"LINEUP_NOT_FOUND">>), ErrLineupNotFound>>,
      <<Quote(<<"UNKNOWN_LINEUP">>), ErrUnknownLineup>>,
      <<Quote(<<"INVALID_LINEUP_DELETE">>), ErrInvalidLineupDelete>>,
      <<Quote(<<"LINEUP_WRONG_FORMAT">>), ErrLineupWrongFormat>>,
      <<Quote(<<"INVALID_LINEUP">>), ErrInvalidLineup>>,
      <<Quote(<<"LINEUP_DELETED">>), ErrLineupDeleted>>,
      <<Quote(<<"LINEUP_QUEUED">>), ErrLineupQueued>>,
      <<Quote(<<"INVALID_COUNTRY">>), ErrInvalidCountry>>,
      <<Quote(<<"STATIONID_NOT_FOUND">>), ErrStationIDNotFound>>,
      <<Quote(<<"SERVICE_OFFLINE">>), ErrServiceOffline>>,
      <<Quote(<<"ACCOUNT_EXPIRED">>), ErrAccountExpired>>,
      <<Quote(<<"INVALID_HASH">>), ErrInvalidHash>>,
      <<Quote(<<"INVALID_USER">>), ErrInvalidUser>>,
      <<Quote(<<"ACCOUNT_LOCKOUT">>), ErrAccountLockout>>,
      <<Quote(<<"ACCOUNT_DISABLED">>), ErrAccountDisabled>>,
      <<Quote(<<"TOKEN_EXPIRED">>), ErrTokenExpired>>,
      <<Quote(<<"MAX_LINEUP_CHANGES_REACHED">>), ErrMaxLineupChangesReached>>,
      <<Quote(<<"MAX_LINEUPS">>), ErrMaxLineups>>,
      <<Quote(<<"NO_LINEUPS">>), ErrNoLineups>>,
      <<Quote(<<"IMAGE_NOT_FOUND">>), ErrImageNotFound>>,
      <<Quote(<<"INVALID_PROGRAMID">>), ErrInvalidProgramID>>,
      <<Quote(<<"PROGRAMID_QUEUED">>), ErrProgramIDQueued>>,
      <<Quote(<<"SCHEDULE_NOT_FOUND">>), ErrScheduleNotFound>>,
      <<Quote(<<"INVALID_SCHEDULE_REQUEST">>), ErrInvalidScheduleRequest>>,
      <<Quote(<<"SCHEDULE_RANGE_EXCEEDED">>), ErrScheduleRangeExceeded>>,
      <<Quote(<<"SCHEDULE_NOT_IN_LINEUP">>), ErrScheduleNotInLineup>>,
      <<Quote(<<"SCHEDULE_QUEUED">>), ErrScheduleQueued>>,
      <<Quote(<<"HCF">>), ErrHCF>> }

\* var codeToInternal = map[ErrorCode]string{ ErrOK: "OK", ... }
codeToInternal ==
    { <<ErrOK, <<"OK">> >>,
      <<ErrInvalidJSON, <<"INVALID_JSON">> >>,
      <<ErrDeflateRequired, <<"DEFLATE_REQUIRED">> >>,
      <<ErrTokenMissing, <<"TOKEN_MISSING">> >>,
      <<ErrUnsupportedCommand, <<"UNSUPPORTED_COMMAND">> >>,
      <<ErrRequiredActionMissing, <<"REQUIRED_ACTION_MISSING">> >>,
      <<ErrRequiredRequestMissing, <<"REQUIRED_REQUEST_MISSING">> >>,
      <<ErrRequiredParameterMissingCountry, <<"REQUIRED_PARAMETER_MISSING:COUNTRY">> >>,
      <<ErrRequiredParameterMissingPostalCode, <<"REQUIRED_PARAMETER_MISSING:POSTALCODE">> >>,
      <<ErrRequiredParameterMissingMessageID, <<"REQUIRED_PARAMETER_MISSING:MSGID">> >>,
      <<ErrInvalidParameterCountry, <<"INVALID_PARAMETER:COUNTRY">> >>,
      <<ErrInvalidParameterPostalCode, <<"INVALID_PARAMETER:POSTALCODE">> >>,
      <<ErrInvalidParameterFetchType, <<"INVALID_PARAMETER:FETCHTYPE">> >>,
      <<ErrDuplicateLineup, <<"DUPLICATE_LINEUP">> >>,
      <<ErrLineupNotFound, <<"LINEUP_NOT_FOUND">> >>,
      <<ErrUnknownLineup, <<"UNKNOWN_LINEUP">> >>,
      <<ErrInvalidLineupDelete, <<"INVALID_LINEUP_DELETE">> >>,
      <<ErrLineupWrongFormat, <<"LINEUP_WRONG_FORMAT">> >>,
      <<ErrInvalidLineup, <<"INVALID_LINEUP">> >>,
      <<ErrLineupDeleted, <<"LINEUP_DELETED">> >>,
      <<ErrLineupQueued, <<"LINEUP_QUEUED">> >>,
      <<ErrInvalidCountry, <<"INVALID_COUNTRY">> >>,
      <<ErrStationIDNotFound, <<"STATIONID_NOT_FOUND">> >>,
      <<ErrServiceOffline, <<"SERVICE_OFFLINE">> >>,
      <<ErrAccountExpired, <<"ACCOUNT_EXPIRED">> >>,
      <<ErrInvalidHash, <<"INVALID_HASH">> >>,
      <<ErrInvalidUser, <<"INVALID_USER">> >>,
      <<ErrAccountLockout, <<"ACCOUNT_LOCKOUT">> >>,
      <<ErrAccountDisabled, <<"ACCOUNT_DISABLED">> >>,
      <<ErrTokenExpired, <<"TOKEN_EXPIRED">> >>,
      <<ErrMaxLineupChangesReached, <<"MAX_LINEUP_CHANGES_REACHED">> >>,
      <<ErrMaxLineups, <<"MAX_LINEUPS">> >>,
      <<ErrNoLineups, <<"NO_LINEUPS">> >>,
      <<ErrImageNotFound, <<"IMAGE_NOT_FOUND">> >>,
      <<ErrInvalidProgramID, <<"INVALID_PROGRAMID">> >>,
      <<ErrProgramIDQueued, <<"PROGRAMID_QUEUED">> >>,
      <<ErrScheduleNotFound, <<"SCHEDULE_NOT_FOUND">> >>,
      <<ErrInvalidScheduleRequest, <<"INVALID_SCHEDULE_REQUEST">> >>,
      <<ErrScheduleRangeExceeded, <<"SCHEDULE_RANGE_EXCEEDED">> >>,
      <<ErrScheduleNotInLineup, <<"SCHEDULE_NOT_IN_LINEUP">> >>,
      <<ErrScheduleQueued, <<"SCHEDULE_QUEUED">> >>,
      <<ErrHCF, <<"HCF">> >> }

\* The value a table holds for a key; the keys of a map are distinct.
Has(table, key) == \E e \in table : e[1] = key
At(table, key) == (CHOOSE e \in table : e[1] = key)[2]

\* strconv.FormatUint(n, 10), which is also how encoding/json writes a uint32.
RECURSIVE FormatUint(_)
FormatUint(n) ==
    IF n < 10 THEN <<DigitChars[n + 1]>>
    ELSE FormatUint(n \div 10) \o <<DigitChars[(n % 10) + 1]>>

RECURSIVE DigitsValue(_)
DigitsValue(b) ==
    IF b = <<>> THEN 0
    ELSE 10 * DigitsValue(SubSeq(b, 1, Len(b) - 1)) + DigitValue(b[Len(b)])

\* Faulty variant: quotes around the digits are skipped.
ParseUintUnquoting(b) ==
    LET s == SelectSeq(b, LAMBDA ch : ch # Q)
    IN  IF s # <<>> /\ \A i \in 1..Len(s) : IsDigit(s[i])
        THEN [ok |-> TRUE, value |-> DigitsValue(s)]
        ELSE [ok |-> FALSE, value |-> 0]

\* strconv.ParseUint(string(b), 10, 32): digits only, no sign, no quotes, not
\* empty (up to MaxDigits digits the value is within 32 bits).
ParseUint(b) ==
    IF b # <<>> /\ \A i \in 1..Len(b) : IsDigit(b[i])
    THEN [ok |-> TRUE, value |-> DigitsValue(b)]
    ELSE [ok |-> FALSE, value |-> 0]

\* Faulty variant: a number without a meaning is refused.
InvalidCodeUnknown(ci) == ci \notin KnownCodes

\* ci >= _maxCode
InvalidCode(ci) == ci >= _maxCode

\* func (c *ErrorCode) UnmarshalJSON(b []byte) error, with *c = old before
\* the call: the error it returns (or "none") and *c after it.
ErrorCodeUnmarshalJSON(b, old) ==
    IF b = Null THEN [err |-> "none", code |-> old]
    ELSE IF ParseUint(b).ok
    THEN IF InvalidCode(ParseUint(b).value)
         THEN [err |-> "invalid code", code |-> old]
         ELSE [err |-> "none", code |-> ParseUint(b).value]
    ELSE IF Has(strToCode, b)
    THEN [err |-> "none", code |-> At(strToCode, b)]
    ELSE [err |-> "invalid code", code |-> old]

\* ErrorCode has no MarshalJSON: encoding/json writes the uint32 in decimal.
ErrorCodeMarshalJSON(code) == FormatUint(code)

\* Faulty variant: the sub-cases of a family share the family's string.
InternalCodeFamily(code) ==
    IF code \in {ErrRequiredParameterMissingCountry,
                 ErrRequiredParameterMissingPostalCode,
                 ErrRequiredParameterMissingMessageID}
    THEN <<"REQUIRED_PARAMETER_MISSING">>
    ELSE IF Has(codeToInternal, code) THEN At(codeToInternal, code)
    ELSE <<"Unknown ErrorCode(">> \o FormatUint(code) \o <<")">>

\* func (c ErrorCode) InternalCode() string
InternalCode(code) ==
    IF Has(codeToInternal, code) THEN At(codeToInternal, code)
    ELSE <<"Unknown ErrorCode(">> \o FormatUint(code) \o <<")">>

\* The codes tried: all that can be decoded, and the first that cannot.
CodeInputs == 0.._maxCode

\* A code without a meaning, as in the example of the round trip.
UnknownCode == 4242

\* The byte strings handed to the decoder: numbers bare and in quotes, null,
\* wire strings, words that are none, nothing.
NumberSamples == {0, 7, ErrInvalidUser, UnknownCode, ErrHCF, _maxCode}
DigitStrings ==
    {FormatUint(n) : n \in NumberSamples}
    \cup {<<"0", "0", "4", "2">>, [i \in 1..MaxDigits |-> "9"]}
CodeLiterals ==
    DigitStrings \cup {Quote(s) : s \in DigitStrings}
    \cup {Null, <<>>, <<"x", "x", "x">>, Quote(<<"INVALID_USER">>),
          <<"INVALID_USER">>, Quote(<<"REQUIRED_PARAMETER_MISSING">>),
          Quote(<<"NO_SUCH_CODE">>)}

\* json.Marshal(c) followed by json.Unmarshal(cJSON, &cUnMarshaled).
ErrorCodeRoundTrip(code) ==
    /\ codec = NoCodec
    /\ LET cJSON == ErrorCodeMarshalJSON(code)
           d == ErrorCodeUnmarshalJSON(cJSON, ErrOK)
       IN  codec' = [op |-> "ErrorCode.RoundTrip", code |-> code, json |-> cJSON,
                     err |-> d.err, got |-> d.code,
                     again |-> ErrorCodeMarshalJSON(d.code)]
    /\ UNCHANGED <<now, client, pc, c, req, result, depth, hist, granted, bulk, past>>

\* c.InternalCode(), and the decoding of that string in quotes.
ErrorCodeWire(code) ==
    /\ codec = NoCodec
    /\ LET wire == InternalCode(code)
           d == ErrorCodeUnmarshalJSON(Quote(wire), ErrOK)
       IN  codec' = [op |-> "ErrorCode.InternalCode", code |-> code, wire |-> wire,
                     err |-> d.err, got |-> d.code]
    /\ UNCHANGED <<now, client, pc, c, req, result, depth, hist, granted, bulk, past>>

\* got.UnmarshalJSON(b) with got = old before the call.
ErrorCodeDecode(b, old) ==
    /\ codec = NoCodec
    /\ LET d == ErrorCodeUnmarshalJSON(b, old)
       IN  codec' = [op |-> "ErrorCode.UnmarshalJSON", b |-> b, old |-> old,
                     err |-> d.err, got |-> d.code]
    /\ UNCHANGED <<now, client, pc, c, req, result, depth, hist, granted, bulk, past>>

---------------------------------------------------------------------------
(* ConvertibleBoolean *)

Zero == <<"0">>
One == <<"1">>
True == <<"t", "r", "u", "e">>
False == <<"f", "a", "l", "s", "e">>
Yes == <<"y", "e", "s">>
No == <<"n", "o">>

\* strings.Contains(string(data), `"`)
Contains(data, ch) == \E i \in 1..Len(data) : data[i] = ch

\* strings.Replace(string(data), `"`, "", -1)
RemoveAll(data, ch) == SelectSeq(data, LAMBDA x : x # ch)

\* func (bit *ConvertibleBoolean) UnmarshalJSON(data []byte) error, with
\* *bit = old before the call.
ConvertibleBooleanUnmarshalJSON(data, old) ==
    LET quoted == Contains(data, Q)
        asString == RemoveAll(data, Q)
    IN  IF asString = One \/ asString = True \/ asString = Yes
        THEN [err |-> "none", bit |-> [bool |-> TRUE, quoted |-> quoted]]
        ELSE IF asString = Zero \/ asString = False \/ asString = No
        THEN [err |-> "none", bit |-> [bool |-> FALSE, quoted |-> quoted]]
        ELSE [err |-> "invalid input",
              bit |-> [bool |-> old.bool, quoted |-> quoted]]

\* Faulty variant: the number is written bare whatever the original was.
ConvertibleBooleanMarshalJSONBare(bit) ==
    FormatUint(IF bit.bool THEN 1 ELSE 0)

\* func (bit ConvertibleBoolean) MarshalJSON() ([]byte, error)
ConvertibleBooleanMarshalJSON(bit) ==
    LET bitSetVar == IF bit.bool THEN 1 ELSE 0
    IN  IF bit.quoted THEN Quote(FormatUint(bitSetVar))
        ELSE FormatUint(bitSetVar)

\* The byte strings handed to the decoder: the words and digits bare and in
\* quotes, and some that are no boolean.
BooleanWords == {Zero, One, True, False, Yes, No}
BooleanLiterals ==
    BooleanWords \cup {Quote(w) : w \in BooleanWords}
    \cup {<<>>, <<"2">>, Quote(<<"2">>), Null, <<Q, Q>>,
          <<"t", "r", Q, "u", "e">>, <<"T", "r", "u", "e">>}
BooleanValues == [bool : BOOLEAN, quoted : BOOLEAN]

\* bit.UnmarshalJSON(data), then bit.MarshalJSON() and the decoding of what
\* that wrote.
ConvertibleBooleanRoundTrip(data, old) ==
    /\ codec = NoCodec
    /\ LET d == ConvertibleBooleanUnmarshalJSON(data, old)
           out == ConvertibleBooleanMarshalJSON(d.bit)
           d2 == ConvertibleBooleanUnmarshalJSON(out, old)
       IN  codec' = [op |-> "ConvertibleBoolean.RoundTrip", data |-> data,
                     old |-> old, err |-> d.err, bit |-> d.bit,
                     json |-> out, err2 |-> d2.err, again |-> d2.bit]
    /\ UNCHANGED <<now, client, pc, c, req, result, depth, hist, granted, bulk, past>>

---------------------------------------------------------------------------
(* Date *)

\* The largest month and day numbers written into a date literal; they go
\* one beyond the calendar so that dates that are none are tried.
MaxMonth == 13
MaxDay == 32

\* The number n in decimal, filled with zeros on the left up to the width.
RECURSIVE Pad(_, _)
Pad(n, width) ==
    IF Len(FormatUint(n)) >= width THEN FormatUint(n)
    ELSE <<"0">> \o Pad(n, width - 1)

AllDigits(str) == \A i \in 1..Len(str) : IsDigit(str[i])

\* strconv.Unquote(string(text)) of a double-quoted string without escapes.
Unquote(text) ==
    IF /\ Len(text) >= 2
       /\ text[1] = Q
       /\ text[Len(text)] = Q
       /\ ~Contains(SubSeq(text, 2, Len(text) - 1), Q)
    THEN [ok |-> TRUE, str |-> SubSeq(text, 2, Len(text) - 1)]
    ELSE [ok |-> FALSE, str |-> <<>>]

\* Faulty variant: every date is taken to be a full date.
DateFormatFullOnly(str) == "2006-01-02"

\* dateFormat := "2006-01-02"; if len(str) == 4 { dateFormat = "2006" }
DateFormat(str) == IF Len(str) = 4 THEN "2006" ELSE "2006-01-02"

IsLeap(year) == year % 4 = 0 /\ (year % 100 # 0 \/ year % 400 = 0)

DaysIn(month, year) ==
    IF month = 2 THEN (IF IsLeap(year) THEN 29 ELSE 28)
    ELSE IF month \in {4, 6, 9, 11} THEN 30 ELSE 31

\* time.Parse(dateFormat, str): the layout has to be matched digit for
\* digit, the month and the day have to exist.
TimeParse(dateFormat, str) ==
    IF dateFormat = "2006"
    THEN IF Len(str) = 4 /\ AllDigits(str)
         THEN [ok |-> TRUE, year |-> DigitsValue(str), month |-> 1, day |-> 1]
         ELSE [ok |-> FALSE, year |-> 0, month |-> 0, day |-> 0]
    ELSE IF /\ Len(str) = 10
            /\ AllDigits(SubSeq(str, 1, 4))
            /\ str[5] = "-"
            /\ AllDigits(SubSeq(str, 6, 7))
            /\ str[8] = "-"
            /\ AllDigits(SubSeq(str, 9, 10))
            /\ DigitsValue(SubSeq(str, 6, 7)) \in 1..12
            /\ DigitsValue(SubSeq(str, 9, 10)) \in
                 1..DaysIn(DigitsValue(SubSeq(str, 6, 7)), DigitsValue(SubSeq(str, 1, 4)))
         THEN [ok |-> TRUE, year |-> DigitsValue(SubSeq(str, 1, 4)),
               month |-> DigitsValue(SubSeq(str, 6, 7)),
               day |-> DigitsValue(SubSeq(str, 9, 10))]
         ELSE [ok |-> FALSE, year |-> 0, month |-> 0, day |-> 0]

\* t.Format(layout)
TimeFormat(t, layout) ==
    IF layout = "2006" THEN Pad(t.year, 4)
    ELSE Pad(t.year, 4) \o <<"-">> \o Pad(t.month, 2) \o <<"-">> \o Pad(t.day, 2)

NoDate == [set |-> FALSE, year |-> 0, month |-> 0, day |-> 0, fmt |-> ""]

\* func (p *Date) UnmarshalJSON(text []byte) error, with *p = old before the
\* call.
DateUnmarshalJSON(text, old) ==
    LET u == Unquote(text)
        dateFormat == DateFormat(u.str)
        v == TimeParse(dateFormat, u.str)
    IN  IF ~u.ok THEN [err |-> "unquote", p |-> old]
        ELSE IF ~v.ok THEN [err |-> "should be a time", p |-> old]
        ELSE [err |-> "none",
              p |-> [set |-> TRUE, year |-> v.year, month |-> v.month,
                     day |-> v.day, fmt |-> dateFormat]]

\* func (p Date) MarshalJSON() ([]byte, error)
DateMarshalJSON(p) == Quote(TimeFormat(p, p.fmt))

Years == {1900, 2000, 2015, 2016}

YearLiteral(y) == Quote(Pad(y, 4))
FullLiteral(y, m, d) ==
    Quote(Pad(y, 4) \o <<"-">> \o Pad(m, 2) \o <<"-">> \o Pad(d, 2))

\* The byte strings handed to the decoder: years, full dates that exist and
\* that do not, and some that are no date.
DateLiterals ==
    {YearLiteral(y) : y \in Years}
    \cup {FullLiteral(y, m, d) : y \in Years, m \in 0..MaxMonth, d \in 0..MaxDay}
    \cup {<<>>, Pad(2015, 4), Quote(<<"1", "5">>), Quote(<<"2", "0", "1", "x">>),
          Quote(Pad(2015, 4) \o <<"-">> \o Pad(3, 2)), Null}

\* p.UnmarshalJSON(text), then p.MarshalJSON() when that went well.
DateRoundTrip(text) ==
    /\ codec = NoCodec
    /\ LET d == DateUnmarshalJSON(text, NoDate)
       IN  codec' = [op |-> "Date.RoundTrip", data |-> text, err |-> d.err,
                     p |-> d.p,
                     json |-> IF d.err = "none" THEN DateMarshalJSON(d.p) ELSE <<>>]
    /\ UNCHANGED <<now, client, pc, c, req, result, depth, hist, granted, bulk, past>>

---------------------------------------------------------------------------
(* ArtworkResponse *)

\* The data payload of an entry as bytes: a JSON array of artwork objects, a
\* JSON object with a code, a JSON string; an artwork object is kept as one
\* piece, "art" when it decodes into Artwork and "badart" when it does not.
RECURSIVE Join(_)
Join(items) ==
    IF items = <<>> THEN <<>>
    ELSE IF Len(items) = 1 THEN items
    ELSE <<Head(items), ",">> \o Join(Tail(items))

ArrayPayload(items) == <<"[">> \o Join(items) \o <<"]">>
ObjectPayload(codeLiteral) == <<"{", "code", ":">> \o codeLiteral \o <<"}">>

\* json.Unmarshal(ar.wrapper.Data, &ar.Artwork) of an array
UnmarshalArtwork(data) ==
    LET items == SelectSeq(SubSeq(data, 2, Len(data) - 1), LAMBDA x : x # ",")
    IN  IF Contains(items, "badart")
        THEN [err |-> "json", Artwork |-> [set |-> TRUE, items |-> <<>>]]
        ELSE [err |-> "none", Artwork |-> [set |-> TRUE, items |-> items]]

\* json.Unmarshal(ar.wrapper.Data, &ar.Error) of what is no array: an object
\* is decoded into a BaseResponse, its code by ErrorCode.UnmarshalJSON; null
\* sets the pointer to nil and is no error; anything else is a type error,
\* after the pointer was allocated.
UnmarshalError(data) ==
    IF data[1] = "{"
    THEN LET d == ErrorCodeUnmarshalJSON(SubSeq(data, 4, Len(data) - 1), ErrOK)
         IN  [err |-> IF d.err = "none" THEN "none" ELSE "json",
              Error |-> [set |-> TRUE, code |-> d.code]]
    ELSE IF data = Null
    THEN [err |-> "none", Error |-> [set |-> FALSE, code |-> ErrOK]]
    ELSE [err |-> "json", Error |-> [set |-> TRUE, code |-> ErrOK]]

\* Faulty variant: the object is taken for the list.
IsArtworkListBrace(data) == data[1] = "{"

\* ar.wrapper.Data[0] == '['
IsArtworkList(data) == data[1] = "["

NoArtworkResponse ==
    [ProgramID |-> "", Artwork |-> [set |-> FALSE, items |-> <<>>],
     Error |-> [set |-> FALSE, code |-> ErrOK]]

\* func (ar *ArtworkResponse) UnmarshalJSON(b []byte) error on a zero ar; the
\* entry b is given by whether it parses into the wrapper, its programID and
\* the bytes of its data (none when the key is missing).  Indexing the empty
\* data panics.
ArtworkResponseUnmarshalJSON(b) ==
    IF ~b.parses THEN [err |-> "json", ar |-> NoArtworkResponse]
    ELSE LET ar1 == [NoArtworkResponse EXCEPT !.ProgramID = b.pid]
         IN  IF b.data = <<>> THEN [err |-> "panic", ar |-> ar1]
             ELSE IF IsArtworkList(b.data)
             THEN [err |-> UnmarshalArtwork(b.data).err,
                   ar |-> [ar1 EXCEPT !.Artwork = UnmarshalArtwork(b.data).Artwork]]
             ELSE [err |-> UnmarshalError(b.data).err,
                   ar |-> [ar1 EXCEPT !.Error = UnmarshalError(b.data).Error]]

ArtworkLists ==
    {<<>>, <<"art">>, <<"art", "art">>, <<"badart">>, <<"art", "badart">>}

ArtworkCodeLiterals ==
    {FormatUint(n) : n \in {ErrOK, ErrImageNotFound, ErrInvalidProgramID}}
    \cup {Quote(<<"INVALID_PROGRAMID">>), Quote(FormatUint(ErrInvalidProgramID))}

ArtworkPayloads ==
    {ArrayPayload(items) : items \in ArtworkLists}
    \cup {ObjectPayload(k) : k \in ArtworkCodeLiterals}
    \cup {<<>>, Null, Quote(<<>>), Quote(<<"x">>), FormatUint(7)}

ArtworkEntries ==
    {[parses |-> TRUE, pid |-> pid, data |-> data] :
         pid \in {"EP01", "SH02"}, data \in ArtworkPayloads}
    \cup {[parses |-> FALSE, pid |-> "", data |-> <<>>]}

\* One entry of the answer is decoded.
ArtworkResponseDecode(b) ==
    /\ codec = NoCodec
    /\ LET d == ArtworkResponseUnmarshalJSON(b)
       IN  codec' = [op |-> "ArtworkResponse.UnmarshalJSON", b |-> b,
                     err |-> d.err, ar |-> d.ar]
    /\ UNCHANGED <<now, client, pc, c, req, result, depth, hist, granted, bulk, past>>

---------------------------------------------------------------------------
(* The specification of one caller at a time *)

Init ==
    /\ now = 0
    /\ client = NoClient
    /\ pc = [p \in Callers |-> "idle"]
    /\ c = [p \in Callers |-> NoClient]
    /\ req = [p \in Callers |-> NoRequest]
    /\ result = [p \in Callers |-> NoResult]
    /\ depth = [p \in Callers |-> 0]
    /\ hist = [p \in Callers |-> NoHist]
    /\ granted = NoGrant
    /\ bulk = NoBulk
    /\ codec = NoCodec
    /\ past = [p \in Callers |-> FALSE]

Next ==
    \/ \E ar \in AuthReplies : NewClient(ar)
    \/ Tick
    \/ \E p \in SeqCallers, rq \in Requests : SendRequest(p, rq)
    \/ \E p \in SeqCallers, ar \in AuthReplies : Enter(p, ar)
    \/ \E p \in SeqCallers, r \in Replies, ar \in AuthReplies : Exchange(p, r, ar)
    \/ \E p \in SeqCallers : Return(p)

Spec == Init /\ [][Next]_vars

(* The specification of send calls running side by side on one client: the *)
(* steps of the calls of all callers interleave. The requests, replies and  *)
(* token replies are the ones a renewal depends on.                         *)

ConcurrentRequests == {rq \in Requests : rq.method = "GET" /\ rq.needsToken}

ConcurrentReplies ==
    {r \in Replies : r.fail = "none" /\ r.status = 200
                     /\ (r.parses => r.code = ErrInvalidUser)}

ConcurrentAuthReplies ==
    {ar \in AuthReplies : \/ ar.kind = "transport"
                           \/ (ar.kind = "envelope" /\ ar.code = ErrOK
                               /\ ar.token # "")}

NextConcurrent ==
    \/ \E ar \in ConcurrentAuthReplies : NewClient(ar)
    \/ Tick
    \/ \E p \in Callers, rq \in ConcurrentRequests : SendRequest(p, rq)
    \/ \E p \in Callers, ar \in ConcurrentAuthReplies : Enter(p, ar)
    \/ \E p \in Callers, r \in ConcurrentReplies, ar \in ConcurrentAuthReplies :
            Exchange(p, r, ar)
    \/ \E p \in Callers : Return(p)

SpecConcurrent == Init /\ [][NextConcurrent]_vars

(* The specification of the bulk endpoints *)

NextBulk ==
    \/ \E e \in Endpoints : \E n \in BulkSizes(e) : BulkCall(e, n)
    \/ \E o \in BatchOutcomes : BulkRequest(o)
    \/ \E o \in BatchOutcomes : BulkChunk(o)
    \/ BulkReturn
    \/ BulkReset

SpecBulk == Init /\ [][NextBulk]_vars

(* The specification of the JSON conversions *)

\* The conversion is over; the next one starts from nothing.
CodecReset ==
    /\ codec # NoCodec
    /\ codec' = NoCodec
    /\ UNCHANGED <<now, client, pc, c, req, result, depth, hist, granted, bulk, past>>

NextCodec ==
    \/ \E code \in CodeInputs : ErrorCodeRoundTrip(code)
    \/ \E code \in KnownCodes \cup {UnknownCode} : ErrorCodeWire(code)
    \/ \E b \in CodeLiterals, old \in {ErrOK, ErrHCF} : ErrorCodeDecode(b, old)
    \/ \E data \in BooleanLiterals, old \in BooleanValues :
           ConvertibleBooleanRoundTrip(data, old)
    \/ \E text \in DateLiterals : DateRoundTrip(text)
    \/ \E b \in ArtworkEntries : ArtworkResponseDecode(b)
    \/ CodecReset

SpecCodec == Init /\ [][NextCodec]_vars

---------------------------------------------------------------------------
(* Vocabulary of the properties *)

\* The reply is the invalid-credentials error envelope.
InvalidCredentials(r) ==
    r.fail = "none" /\ r.parses /\ r.code = ErrInvalidUser

\* The reply is a body that parses as the generic envelope with a non-zero code.
ErrorEnvelope(r) == r.fail = "none" /\ r.parses /\ r.code # 0

\* The reply is a successful answer: it arrived, it is no error envelope and
\* its status is below 400.
Successful(r) == r.fail = "none" /\ ~ErrorEnvelope(r) /\ r.status < 400

Last(sq) == sq[Len(sq)]

\* The GetToken reply delivers a token.
Grants(ar) == ar.kind = "envelope" /\ ar.code = ErrOK

\* A GetToken of the call was made for a rejected token and succeeded with a
\* token the request can carry.
Reauthenticated(p) ==
    \E i \in 1..Len(hist[p].auths) :
        /\ hist[p].auths[i].why = "rejected"
        /\ Grants(hist[p].auths[i].reply)
        /\ (req[p].needsToken => hist[p].auths[i].reply.token # "")

---------------------------------------------------------------------------
(* C1: when the first request of a send call is answered with the          *)
(* invalid-credentials envelope, the re-authentication succeeds and what   *)
(* is sent after it is answered successfully, the call returns success,    *)
(* having called GetToken exactly once and sent the request exactly twice. *)
C1_RetryExactlyOnce ==
    \A p \in Callers :
        ( /\ pc[p] = "done"
          /\ Len(hist[p].replies) >= 1
          /\ InvalidCredentials(hist[p].replies[1])
          /\ Reauthenticated(p)
          /\ \A i \in 2..Len(hist[p].replies) : Successful(hist[p].replies[i]) )
        => /\ result[p] = Success
           /\ Len(hist[p].auths) = 1
           /\ Len(hist[p].sent) = 2
           /\ hist[p].log = <<"send", "auth", "send">>

C1_Witness ==
    \E p \in Callers :
        /\ pc[p] = "done"
        /\ Len(hist[p].replies) = 2
        /\ InvalidCredentials(hist[p].replies[1])
        /\ Successful(hist[p].replies[2])
        /\ req[p].needsToken
        /\ result[p] = Success

\* How far a call is from its end, counted in steps.
Rank(p) ==
    CASE pc[p] = "entry" -> 2 * (2 - depth[p]) + 2
      [] pc[p] = "send" -> 2 * (2 - depth[p]) + 1
      [] OTHER -> 0

C2_Bounded ==
    \A p \in Callers :
        /\ Len(hist[p].sent) <= 2
        /\ depth[p] <= 2
        /\ Rank(p) >= 0
        /\ Len(hist[p].sent) = 2 => pc[p] = "done"

(* C2: whatever the service answers, a send call sends its request at most *)
(* twice and ends: it never nests deeper than one retry, it is done once   *)
(* the second answer is in, and every step of the call brings it closer    *)
(* to its end.                                                             *)
C2_AtMostTwoSends ==
    /\ []C2_Bounded
    /\ [][\A p \in Callers :
            (pc[p] \in {"entry", "send"} /\ <<pc[p], depth[p]>> # <<pc[p], depth[p]>>')
                => Rank(p)' < Rank(p)]_vars

C2_Witness ==
    \E p \in Callers :
        /\ pc[p] = "done"
        /\ Len(hist[p].sent) = 2
        /\ \A i \in 1..2 : InvalidCredentials(hist[p].replies[i])

\* The i-th reply is the invalid-credentials reply that made the call fetch a
\* new token.
TriggeredRetry(p, i) ==
    /\ i = 1
    /\ InvalidCredentials(hist[p].replies[i])
    /\ Len(hist[p].auths) >= 1
    /\ Last(hist[p].auths).why = "rejected"

(* C3: a reply whose body parses as the envelope with a non-zero code ends *)
(* the call with a service error carrying that code, whatever its HTTP     *)
(* status; the one exception is the invalid-credentials reply that made    *)
(* the call re-authenticate.                                               *)
C3_ServiceErrorWins ==
    \A p \in Callers :
        \A i \in 1..Len(hist[p].replies) :
            (ErrorEnvelope(hist[p].replies[i]) /\ ~TriggeredRetry(p, i))
            => /\ pc[p] = "done"
               /\ i = Len(hist[p].replies)
               /\ result[p] = ServiceError(hist[p].replies[i].code)

C3_Witness ==
    \E p \in Callers :
        /\ pc[p] = "done"
        /\ Len(hist[p].replies) >= 1
        /\ ErrorEnvelope(Last(hist[p].replies))
        /\ Last(hist[p].replies).status >= 400
        /\ result[p] = ServiceError(Last(hist[p].replies).code)

\* The reply is a failure of any kind.
Failing(r) == r.fail # "none" \/ ErrorEnvelope(r) \/ r.status >= 400

(* C4: a failing reply other than the first invalid-credentials envelope   *)
(* of the call is the last thing the call does on the network: the call is *)
(* over with a failure, no GetToken and no request follows it.             *)
C4_FailuresReturnAtOnce ==
    \A p \in Callers :
        \A i \in 1..Len(hist[p].replies) :
            (Failing(hist[p].replies[i])
               /\ ~(i = 1 /\ InvalidCredentials(hist[p].replies[i])))
            => /\ pc[p] = "done"
               /\ result[p].kind \in {"transport", "gzip", "read", "service", "http"}
               /\ i = Len(hist[p].replies)
               /\ Last(hist[p].log) = "send"

C4_Witness ==
    \E p \in Callers :
        /\ pc[p] = "done"
        /\ Len(hist[p].replies) = 1
        /\ hist[p].replies[1].fail = "transport"
        /\ hist[p].auths = <<>>
        /\ result[p].kind = "transport"

(* C5: when the request is answered with the invalid-credentials envelope, *)
(* re-authentication succeeds and the retried request is answered with the *)
(* invalid-credentials envelope again, the call fails with the service     *)
(* error 4003 and nothing more is sent.                                    *)
C5_SecondRejectionFails ==
    \A p \in Callers :
        ( /\ Len(hist[p].replies) >= 2
          /\ InvalidCredentials(hist[p].replies[1])
          /\ InvalidCredentials(hist[p].replies[2]) )
        => /\ pc[p] = "done"
           /\ result[p] = ServiceError(ErrInvalidUser)
           /\ hist[p].log = <<"send", "auth", "send">>

C5_Witness ==
    \E p \in Callers :
        /\ pc[p] = "done"
        /\ Len(hist[p].replies) = 2
        /\ InvalidCredentials(hist[p].replies[1])
        /\ InvalidCredentials(hist[p].replies[2])
        /\ Reauthenticated(p)
        /\ result[p].code = ErrInvalidUser

(* C6: a send call that needs a token, made on a client whose token is     *)
(* empty, ends at once with the configuration error, which is no service   *)
(* error, and has neither called GetToken nor sent anything.               *)
C6_NoTokenFailsAtOnce ==
    \A p \in Callers :
        (pc[p] \in {"send", "done"} /\ req[p].needsToken /\ client.Token = "")
        => /\ pc[p] = "done"
           /\ result[p] = Failure("config")
           /\ result[p].kind # "service"
           /\ hist[p] = NoHist

C6_Witness ==
    \E p \in Callers :
        /\ pc[p] = "done"
        /\ req[p].needsToken
        /\ client.Token = ""
        /\ now > client.TokenExpiresAt
        /\ result[p].kind = "config"

(* C7: a reply with status 400 or above never makes the call return        *)
(* success, and when its body is no error envelope the call returns the    *)
(* HTTP error carrying that status.                                        *)
C7_ErrorStatusNeverSucceeds ==
    \A p \in Callers :
        ( /\ pc[p] = "done"
          /\ Len(hist[p].replies) >= 1
          /\ Last(hist[p].replies).fail = "none"
          /\ Last(hist[p].replies).status >= 400 )
        => /\ result[p] # Success
           /\ ~ErrorEnvelope(Last(hist[p].replies))
                => result[p] = HTTPError(Last(hist[p].replies).status)

C7_Witness ==
    \E p \in Callers :
        /\ pc[p] = "done"
        /\ Len(hist[p].replies) >= 1
        /\ Last(hist[p].replies).fail = "none"
        /\ Last(hist[p].replies).status = 400
        /\ Last(hist[p].replies).parses
        /\ Last(hist[p].replies).code = ErrOK
        /\ result[p].kind = "http"

---------------------------------------------------------------------------
(* Vocabulary of the bulk properties *)

Ceil(n, k) == (n + k - 1) \div k

\* The j-th consecutive slice of at most k elements of sq.
Slice(sq, k, j) == SubSeq(sq, (j - 1) * k + 1, Min(j * k, Len(sq)))

RECURSIVE Flatten(_)
Flatten(sqs) == IF sqs = <<>> THEN <<>> ELSE Head(sqs) \o Flatten(Tail(sqs))

\* The transport calls made so far are the first consecutive slices of the
\* input, one per call.
ConsecutiveBatches ==
    \A j \in 1..Len(bulk.calls) :
        /\ bulk.calls[j] = Slice(bulk.programIDs, ChunkSize(bulk.endpoint), j)
        /\ Len(bulk.calls[j]) <= ChunkSize(bulk.endpoint)

BulkSucceeded == bulk.pc = "done" /\ ~bulk.err

(* C9 as stated: a bulk lookup of n IDs in which no batch fails issues     *)
(* exactly ceil(n/c) transport calls, the consecutive slices of the input, *)
(* none longer than the cap c.                                             *)
C9_CeilCallsForEveryN ==
    /\ ConsecutiveBatches
    /\ BulkSucceeded
         => Len(bulk.calls) = Ceil(Len(bulk.programIDs), ChunkSize(bulk.endpoint))

(* C9 amended: that holds for n >= 1; a lookup of no IDs at all still      *)
(* issues one transport call, with the empty list.                         *)
C9_CeilCallsForNonEmpty ==
    /\ ConsecutiveBatches
    /\ (BulkSucceeded /\ Len(bulk.programIDs) >= 1)
         => Len(bulk.calls) = Ceil(Len(bulk.programIDs), ChunkSize(bulk.endpoint))
    /\ (BulkSucceeded /\ Len(bulk.programIDs) = 0)
         => bulk.calls = << <<>> >>

C9_Witness ==
    /\ BulkSucceeded
    /\ bulk.endpoint = "GetArtworkForProgramIDs"
    /\ Len(bulk.programIDs) = ExampleSize
    /\ Len(bulk.calls) = 3
    /\ Len(bulk.calls[1]) = 500
    /\ Len(bulk.calls[2]) = 500
    /\ Len(bulk.calls[3]) = 200

(* C10: when every batch of a chunked bulk call succeeds, the returned     *)
(* list is the concatenation of the per-batch results in input order and   *)
(* nothing else; with one record per requested ID it is the n records of   *)
(* the n IDs.                                                              *)
C10_ExactConcatenation ==
    BulkSucceeded
    => /\ bulk.value = Flatten(bulk.answers)
       /\ bulk.answers = bulk.calls => bulk.value = bulk.programIDs

---------------------------------------------------------------------------
(* C11: when a batch of a chunked bulk call fails, the call is over with   *)
(* the error and no results at all, the results of the batches answered    *)
(* before it are dropped, the failed batch is the last one sent, and       *)
(* nothing is sent for the call afterwards.                                *)
C11_FailedBatchAbortsCall ==
    /\ [](bulk.err => /\ bulk.pc = "done"
                       /\ bulk.value = <<>>
                       /\ Len(bulk.calls) = Len(bulk.answers) + 1
                       /\ ConsecutiveBatches)
    /\ [][bulk.err => bulk' = NoBulk]_vars

C11_Witness ==
    /\ bulk.err
    /\ bulk.endpoint = "GetArtworkForProgramIDs"
    /\ Len(bulk.chunks) = 3
    /\ Len(bulk.calls) = 2
    /\ Len(bulk.answers) = 1
    /\ bulk.answers[1] # <<>>
    /\ bulk.value = <<>>

---------------------------------------------------------------------------
\* Every request that left for the service, of every call.
SentRequests == UNION { {hist[p].sent[i] : i \in 1..Len(hist[p].sent)} : p \in Callers }

C12_PutWitness ==
    \E w \in SentRequests : w.method = "PUT" /\ ~w.contentType

---------------------------------------------------------------------------
(* C13: the known codes and their wire strings are in one-to-one           *)
(* correspondence: no two known codes have the same wire string, and the   *)
(* wire string of a known code, in quotes, decodes without error to that   *)
(* code.                                                                   *)
C13_WireStringsBijective ==
    (codec.op = "ErrorCode.InternalCode" /\ codec.code \in KnownCodes)
    => /\ codec.err = "none"
       /\ codec.got = codec.code
       /\ \A other \in KnownCodes \ {codec.code} : InternalCode(other) # codec.wire
       /\ Cardinality(strToCode) = Cardinality(KnownCodes)

C13_Witness ==
    /\ codec.op = "ErrorCode.InternalCode"
    /\ codec.code = ErrRequiredParameterMissingPostalCode
    /\ codec.wire = <<"REQUIRED_PARAMETER_MISSING:POSTALCODE">>
    /\ codec.got = ErrRequiredParameterMissingPostalCode

(* C14: every code from 0 to 9999, with a meaning or without, encoded to   *)
(* JSON and decoded again gives the same code without error, and that code *)
(* encodes to the same JSON.                                               *)
C14_CodeRoundTrip ==
    (codec.op = "ErrorCode.RoundTrip" /\ codec.code \in 0..9999)
    => /\ codec.err = "none"
       /\ codec.got = codec.code
       /\ codec.again = codec.json

C14_Witness ==
    /\ codec.op = "ErrorCode.RoundTrip"
    /\ codec.code = UnknownCode
    /\ UnknownCode \notin KnownCodes
    /\ codec.json = <<"4", "2", "4", "2">>
    /\ codec.got = UnknownCode

\* The byte string is the decimal number n written bare, or in double quotes.
BareInteger(b, n) == b = FormatUint(n)
QuotedInteger(b, n) == b = Quote(FormatUint(n))

(* C15 as stated: an integer code written bare or inside double quotes     *)
(* decodes without error to that code.                                     *)
C15_BareOrQuotedInteger ==
    codec.op = "ErrorCode.UnmarshalJSON"
    => \A n \in NumberSamples \ {_maxCode} :
           (BareInteger(codec.b, n) \/ QuotedInteger(codec.b, n))
           => codec.err = "none" /\ codec.got = n

(* C15 amended: an integer code below 10000 written bare decodes without   *)
(* error to that code; written inside double quotes it is refused as an    *)
(* invalid code and the target keeps its value.                            *)
C15_BareIntegerOnly ==
    codec.op = "ErrorCode.UnmarshalJSON"
    => \A n \in NumberSamples \ {_maxCode} :
           /\ BareInteger(codec.b, n) => codec.err = "none" /\ codec.got = n
           /\ QuotedInteger(codec.b, n)
                => codec.err = "invalid code" /\ codec.got = codec.old

C15_Witness ==
    /\ codec.op = "ErrorCode.UnmarshalJSON"
    /\ codec.b = <<"4", "0", "0", "3">>
    /\ codec.old = ErrHCF
    /\ codec.got = ErrInvalidUser

\* The quoted number has been handed to the decoder and refused.
C15_QuotedWitness ==
    /\ codec.op = "ErrorCode.UnmarshalJSON"
    /\ codec.b = <<Q, "4", "0", "0", "3", Q>>
    /\ codec.err = "invalid code"

---------------------------------------------------------------------------
\* The boolean encodings the service uses, and what each of them means.
AcceptedBooleans ==
    { <<Zero, FALSE>>, <<One, TRUE>>, <<Quote(Zero), FALSE>>, <<Quote(One), TRUE>>,
      <<Quote(True), TRUE>>, <<Quote(False), FALSE>>,
      <<Quote(Yes), TRUE>>, <<Quote(No), FALSE>> }

(* C16: each of 0, 1, "0", "1", "true", "false", "yes", "no" decodes without *)
(* error to the boolean it stands for; encoding that value gives 0 or 1,     *)
(* inside double quotes exactly when the original was inside double quotes,  *)
(* and that literal decodes to the same boolean.                             *)
C16_BooleanRoundTrip ==
    codec.op = "ConvertibleBoolean.RoundTrip"
    => \A a \in AcceptedBooleans :
           codec.data = a[1]
           => /\ codec.err = "none"
              /\ codec.bit.bool = a[2]
              /\ codec.json \in {Zero, One, Quote(Zero), Quote(One)}
              /\ (codec.json[1] = Q) = (codec.data[1] = Q)
              /\ codec.err2 = "none"
              /\ codec.again.bool = a[2]

C16_Witness ==
    /\ codec.op = "ConvertibleBoolean.RoundTrip"
    /\ codec.data = Quote(Yes)
    /\ ~codec.old.bool
    /\ ~codec.old.quoted
    /\ codec.bit.bool
    /\ codec.json = <<Q, "1", Q>>

---------------------------------------------------------------------------
(* C17: a year-only date literal decodes without error and encodes to the  *)
(* same four-digit literal, with no month or day added; a full YYYY-MM-DD  *)
(* literal of a day that exists decodes without error and encodes to the   *)
(* same full literal, month and day kept.                                  *)
C17_DateRoundTrip ==
    codec.op = "Date.RoundTrip"
    => /\ \A y \in Years :
              codec.data = YearLiteral(y)
              => /\ codec.err = "none"
                 /\ codec.json = codec.data
                 /\ Len(codec.json) = 6
       /\ \A y \in Years, m \in 1..12 :
              \A d \in 1..DaysIn(m, y) :
                  codec.data = FullLiteral(y, m, d)
                  => /\ codec.err = "none"
                     /\ codec.json = codec.data
                     /\ Len(codec.json) = 12
                     /\ codec.p.month = m
                     /\ codec.p.day = d

C17_Witness ==
    /\ codec.op = "Date.RoundTrip"
    /\ codec.data = <<Q, "2", "0", "1", "5", Q>>
    /\ codec.p.fmt = "2006"
    /\ codec.json = <<Q, "2", "0", "1", "5", Q>>

\* The full date of the example has made the round trip.
C17_FullWitness ==
    /\ codec.op = "Date.RoundTrip"
    /\ codec.data = <<Q, "2", "0", "1", "5", "-", "0", "3", "-", "0", "4", Q>>
    /\ codec.json = codec.data

---------------------------------------------------------------------------
(* C18: an artwork entry whose data is a JSON array of artwork is decoded  *)
(* without error into the artwork of its program ID, with no error         *)
(* recorded; an entry whose data is a JSON object with a code is decoded   *)
(* without error into the service error of its program ID, with no artwork *)
(* recorded.                                                               *)
C18_ArrayIsArtworkObjectIsError ==
    codec.op = "ArtworkResponse.UnmarshalJSON"
    => /\ \A items \in {<<>>, <<"art">>, <<"art", "art">>} :
              (codec.b.parses /\ codec.b.data = ArrayPayload(items))
              => /\ codec.err = "none"
                 /\ codec.ar.ProgramID = codec.b.pid
                 /\ codec.ar.Artwork = [set |-> TRUE, items |-> items]
                 /\ ~codec.ar.Error.set
       /\ \A n \in {ErrOK, ErrImageNotFound, ErrInvalidProgramID} :
              (codec.b.parses /\ codec.b.data = ObjectPayload(FormatUint(n)))
              => /\ codec.err = "none"
                 /\ codec.ar.ProgramID = codec.b.pid
                 /\ codec.ar.Error = [set |-> TRUE, code |-> n]
                 /\ ~codec.ar.Artwork.set

C18_Witness ==
    /\ codec.op = "ArtworkResponse.UnmarshalJSON"
    /\ codec.b.pid = "SH02"
    /\ codec.b.data = <<"{", "code", ":", "6", "0", "0", "0", "}">>
    /\ codec.ar.Error.code = ErrInvalidProgramID
    /\ ~codec.ar.Artwork.set

\* An entry with a list of two pieces of artwork has been decoded.
C18_ArrayWitness ==
    /\ codec.op = "ArtworkResponse.UnmarshalJSON"
    /\ codec.b.data = <<"[", "art", ",", "art", "]">>
    /\ codec.ar.Artwork.items = <<"art", "art">>
    /\ ~codec.ar.Error.set

---------------------------------------------------------------------------
\* The call of p is at its first entry, needs a token and has one, and finds
\* the token past its expiry with no retry under way.
StaleAtEntry(p) ==
    /\ pc[p] = "entry"
    /\ depth[p] = 1
    /\ req[p].needsToken
    /\ c[p].Token # ""
    /\ now > c[p].TokenExpiresAt
    /\ c[p].failedRequests = 0

\* How the call ends when the GetToken answered by ar fails: GetToken's
\* error is returned, wrapped; a reply without envelope makes it panic.
RefreshFailure(ar) == IF ar.kind = "nilenvelope" THEN "panic" ELSE "refresh"

(* C19: a send call that needs a token and finds it expired, with no retry *)
(* under way, calls GetToken before it sends anything; when GetToken       *)
(* succeeds the request goes out with the new token, and when GetToken     *)
(* fails the call ends with that failure and the request is never sent.    *)
C19_RefreshBeforeSend ==
    /\ [][\A p \in Callers :
            (StaleAtEntry(p) /\ pc[p]' # "entry")
            => /\ hist[p]'.log = <<"auth">>
               /\ hist[p]'.auths[1].why = "expired"
               /\ hist[p]'.sent = <<>>
               /\ IF Grants(hist[p]'.auths[1].reply)
                  THEN /\ pc[p]' = "send"
                       /\ c[p]'.Token = hist[p]'.auths[1].reply.token
                  ELSE /\ pc[p]' = "done"
                       /\ result[p]'.kind = RefreshFailure(hist[p]'.auths[1].reply)]_vars
    /\ [](\A p \in Callers :
            (Len(hist[p].auths) >= 1 /\ hist[p].auths[1].why = "expired")
            => /\ hist[p].log[1] = "auth"
               /\ ~Grants(hist[p].auths[1].reply)
                    => /\ pc[p] = "done"
                       /\ hist[p].sent = <<>>
                       /\ result[p].kind = RefreshFailure(hist[p].auths[1].reply)
               /\ (req[p].needsToken /\ hist[p].sent # <<>>)
                    => hist[p].sent[1].token = hist[p].auths[1].reply.token)

C19_Witness ==
    \E p \in Callers :
        /\ pc[p] = "done"
        /\ req[p].needsToken
        /\ hist[p].log = <<"auth">>
        /\ hist[p].auths[1].why = "expired"
        /\ hist[p].auths[1].reply.kind = "envelope"
        /\ hist[p].auths[1].reply.code = ErrInvalidUser
        /\ result[p].kind = "refresh"
        /\ hist[p].sent = <<>>

\* The token was refreshed and the request went out after it.
C19_SentWitness ==
    \E p \in Callers :
        /\ req[p].needsToken
        /\ hist[p].log = <<"auth", "send">>
        /\ hist[p].auths[1].why = "expired"
        /\ hist[p].sent[1].token = "t2"
        /\ client.Token = "t1"

---------------------------------------------------------------------------
\* The call of p fetched a token with success at some point.
Renewed(p) ==
    \E i \in 1..Len(hist[p].auths) : Grants(hist[p].auths[i].reply)

(* C20: when a send call that renewed the token is over, the client holds  *)
(* the renewed token and its expiry, so that the next send call on the     *)
(* client, which starts from what the client holds, sends the renewed      *)
(* token and does not call GetToken before the new expiry.                 *)
C20_RenewalPersists ==
    \A p \in Callers :
        (pc[p] = "done" /\ Renewed(p))
        => /\ client.Token = Last(hist[p].auths).reply.token
           /\ client.TokenExpiresAt = TokenExpiry(Last(hist[p].auths).reply.time)

---------------------------------------------------------------------------
(* C21: failedRequests is 0 or 1 at every point, in the client and in the  *)
(* receiver of every running send call, and it is 0 when a send call has   *)
(* just returned with success.                                             *)
C21_FailedRequestsZeroOrOne ==
    /\ client.failedRequests \in {0, 1}
    /\ \A p \in Callers :
        /\ c[p].failedRequests \in {0, 1}
        /\ (pc[p] = "done" /\ result[p] = Success)
            => /\ c[p].failedRequests = 0
               /\ client.failedRequests = 0

\* A call that re-authenticated, so that its counter was 1, has returned
\* with success and the counter is 0.
C21_Witness ==
    \E p \in Callers :
        /\ pc[p] = "done"
        /\ result[p] = Success
        /\ hist[p].log = <<"send", "auth", "send">>
        /\ c[p].failedRequests = 0

\* A call that renewed a stale token is sending with its counter at 1.
C21_OneWitness ==
    \E p \in Callers :
        /\ pc[p] = "send"
        /\ hist[p].log = <<"auth">>
        /\ c[p].failedRequests = 1

---------------------------------------------------------------------------
(* C22: one send call makes at most one GetToken call, whether for a stale *)
(* token before the request or for an invalid-credentials reply after it:  *)
(* a call that renewed a stale token and is then answered with the         *)
(* invalid-credentials envelope ends with that service error, without a    *)
(* second GetToken and without a second send.                              *)
C22_AtMostOneGetToken ==
    \A p \in Callers :
        /\ Len(hist[p].auths) <= 1
        /\ (/\ Len(hist[p].auths) = 1
            /\ hist[p].auths[1].why = "expired"
            /\ hist[p].replies # <<>>
            /\ InvalidCredentials(hist[p].replies[1]))
            => /\ hist[p].log = <<"auth", "send">>
               /\ pc[p] = "done"
               /\ result[p] = ServiceError(ErrInvalidUser)

C22_Witness ==
    \E p \in Callers :
        /\ pc[p] = "done"
        /\ hist[p].log = <<"auth", "send">>
        /\ hist[p].auths[1].why = "expired"
        /\ Grants(hist[p].auths[1].reply)
        /\ InvalidCredentials(hist[p].replies[1])
        /\ result[p] = ServiceError(ErrInvalidUser)

---------------------------------------------------------------------------
---------------------------------------------------------------------------
(* C24: a send call that needs no token makes no GetToken call before it   *)
(* sends its request, whatever the stored expiry time.                     *)
C24_NoRefreshWithoutNeedsToken ==
    \A p \in Callers :
        (pc[p] # "idle" /\ ~req[p].needsToken)
        => \A i \in 1..Len(hist[p].auths) : hist[p].auths[i].why # "expired"

\* A request that needs no token was held back by a failed renewal of the
\* expired token and never sent.
C24_RefreshedWitness ==
    \E p \in Callers :
        /\ pc[p] = "done"
        /\ ~req[p].needsToken
        /\ hist[p].log = <<"auth">>
        /\ hist[p].auths[1].why = "expired"
        /\ hist[p].at > client.TokenExpiresAt
        /\ result[p].kind = "refresh"

---------------------------------------------------------------------------
\* The top-level call of p needs a token and has compared the clock with the
\* token's expiry time.
ComparedExpiry(p) ==
    depth[p] = 1 /\ req[p].needsToken /\ hist[p].at # -1

\* The call of p called GetToken before it sent anything.
RefreshedFirst(p) == hist[p].log # <<>> /\ hist[p].log[1] = "auth"

(* C25 as claimed: a send call that needs a token renews it before sending *)
(* exactly when the time it reads is at or after the token's expiry time;  *)
(* so it does at the instant of expiry.                                    *)
C25_StaleAtOrAfterExpiry ==
    \A p \in Callers :
        ComparedExpiry(p)
        => (RefreshedFirst(p) <=> hist[p].at >= client.TokenExpiresAt)

(* C25, amended: a send call that needs a token renews it before sending   *)
(* exactly when the time it reads is strictly after the token's expiry     *)
(* time; at the instant of expiry the request goes out with the stored     *)
(* token and no GetToken call is made first.                               *)
C25_StaleStrictlyAfterExpiry ==
    \A p \in Callers :
        ComparedExpiry(p)
        => /\ RefreshedFirst(p) <=> hist[p].at > client.TokenExpiresAt
           /\ (hist[p].at = client.TokenExpiresAt /\ hist[p].sent # <<>>)
                => hist[p].sent[1].token = client.Token

\* A call entered at the instant of expiry has sent its request with the
\* stored token, without a GetToken call before.
C25_Witness ==
    \E p \in Callers :
        /\ ComparedExpiry(p)
        /\ hist[p].at = client.TokenExpiresAt
        /\ hist[p].log = <<"send">>
        /\ hist[p].sent[1].token = client.Token

\* A call entered after the expiry has renewed the token first.
C25_StaleWitness ==
    \E p \in Callers :
        /\ ComparedExpiry(p)
        /\ hist[p].at > client.TokenExpiresAt
        /\ hist[p].log = <<"auth", "send">>

---------------------------------------------------------------------------
\* The token endpoint answered with an envelope whose code is not OK.
Rejects(ar) == ar.kind = "envelope" /\ ar.code # ErrOK

(* C26: when GetToken is answered with an envelope whose code is not OK it *)
(* fails with that envelope's code, and it leaves the token, the expiry    *)
(* time and failedRequests as they were when it was called: the receiver   *)
(* of the send call holds the client's token and expiry and the counter    *)
(* the call had set before calling GetToken, and the client holds what it  *)
(* held before the call.                                                   *)
C26_RejectedGetTokenChangesNothing ==
    /\ [](\A p \in Callers :
            (hist[p].auths # <<>> /\ Rejects(Last(hist[p].auths).reply))
            => /\ pc[p] = "done"
               /\ result[p].kind \in {"refresh", "reauth"}
               /\ result[p].code = Last(hist[p].auths).reply.code
               /\ c[p].Token = client.Token
               /\ c[p].TokenExpiresAt = client.TokenExpiresAt
               /\ c[p].failedRequests = 1
               /\ client.failedRequests = 0)
    /\ [][\A p \in Callers :
            (/\ Len(hist[p]'.auths) > Len(hist[p].auths)
             /\ Rejects(Last(hist[p]'.auths).reply))
            => /\ client' = client
               /\ c[p]'.Token = c[p].Token
               /\ c[p]'.TokenExpiresAt = c[p].TokenExpiresAt]_vars

\* A call that found its token rejected called GetToken, was answered with the
\* invalid-user envelope and ended with that code.
C26_Witness ==
    \E p \in Callers :
        /\ pc[p] = "done"
        /\ hist[p].log = <<"send", "auth">>
        /\ Rejects(hist[p].auths[1].reply)
        /\ result[p].kind = "reauth"
        /\ result[p].code = ErrInvalidUser
        /\ client.TokenExpiresAt # TokenExpiry(hist[p].auths[1].reply.time)

---------------------------------------------------------------------------
(* C27: the request sent again after a GetToken for a rejected token       *)
(* carries in its token header the token that GetToken returned, in place  *)
(* of the rejected one.                                                    *)
C27_ResentCarriesNewToken ==
    \A p \in Callers :
        (Len(hist[p].sent) = 2 /\ req[p].needsToken)
        => /\ hist[p].log = <<"send", "auth", "send">>
           /\ hist[p].auths[1].why = "rejected"
           /\ Grants(hist[p].auths[1].reply)
           /\ hist[p].sent[2].tokenSet
           /\ hist[p].sent[2].token = hist[p].auths[1].reply.token

\* The first send carried t1, which was rejected; the second carries t2.
C27_Witness ==
    \E p \in Callers :
        /\ Len(hist[p].sent) = 2
        /\ req[p].needsToken
        /\ hist[p].sent[1].token = "t1"
        /\ InvalidCredentials(hist[p].replies[1])
        /\ hist[p].auths[1].reply.token = "t2"
        /\ hist[p].sent[2].token = "t2"

---------------------------------------------------------------------------
(* C28: the request sent again after a GetToken for a rejected token is    *)
(* the request that was sent first: the same method and the same body, a   *)
(* body that went out with the first send going out in full again.         *)
C28_ResentRequestIsSame ==
    \A p \in Callers :
        Len(hist[p].sent) = 2
        => /\ hist[p].sent[2].method = hist[p].sent[1].method
           /\ hist[p].sent[2].body = hist[p].sent[1].body

\* A POST went out with its body, was rejected, and went out again from the
\* buffer the first send had read to its end.
C28_DrainedWitness ==
    \E p \in Callers :
        /\ hist[p].log = <<"send", "auth", "send">>
        /\ hist[p].sent[1].method = "POST"
        /\ hist[p].sent[2].method = "POST"
        /\ hist[p].sent[1].body = "full"
        /\ hist[p].sent[2].body = "drained"

---------------------------------------------------------------------------
\* The top-level call of p read a time after the expiry the client holds.
ObservedStale(p) ==
    depth[p] = 1 /\ hist[p].at > client.TokenExpiresAt

(* C29: nothing in the client makes one token renewal exclude another:     *)
(* every send call that finds the token expired calls GetToken itself,     *)
(* whatever the other calls running on the client are doing, so two calls  *)
(* that both find it expired can both have a renewal of their own under    *)
(* way.                                                                    *)
C29_EachStaleCallRenews ==
    \A p \in Callers :
        ObservedStale(p)
        => /\ RefreshedFirst(p)
           /\ hist[p].auths[1].why = "expired"

\* Two calls are running at once, both found the token expired, and each has
\* made a GetToken call of its own: two authentications for one expiry.
C29_Witness ==
    /\ \A p \in Callers :
        /\ pc[p] = "send"
        /\ ObservedStale(p)
        /\ hist[p].log = <<"auth">>
        /\ hist[p].auths[1].why = "expired"
    /\ \E p, q \in Callers :
        /\ p # q
        /\ c[p].Token = "t1"
        /\ c[q].Token = "t2"

---------------------------------------------------------------------------
\* The data of the decoded entry is missing, or starts with a byte that opens
\* neither a list nor an object.
OddPayload(b) == b.parses /\ (b.data = <<>> \/ b.data[1] \notin {"[", "{"})

(* C30: decoding an artwork entry whose data is missing, empty or starts   *)
(* with a byte other than '[' and '{' ends with a decoding error: it does  *)
(* not crash on the empty data and it does not end without error.          *)
C30_OddPayloadIsDecodeError ==
    (codec.op = "ArtworkResponse.UnmarshalJSON" /\ OddPayload(codec.b))
    => codec.err = "json"

\* An entry without data was decoded: indexing its empty data crashed.
C30_PanicWitness ==
    /\ codec.op = "ArtworkResponse.UnmarshalJSON"
    /\ codec.b.parses
    /\ codec.b.data = <<>>
    /\ codec.err = "panic"

\* An entry whose data is null was decoded without error, and holds neither
\* artwork nor an error.
C30_NullWitness ==
    /\ codec.op = "ArtworkResponse.UnmarshalJSON"
    /\ codec.b.data = Null
    /\ codec.err = "none"
    /\ ~codec.ar.Artwork.set
    /\ ~codec.ar.Error.set

\* An entry whose data is a string was decoded, with a decoding error.
C30_StringWitness ==
    /\ codec.op = "ArtworkResponse.UnmarshalJSON"
    /\ codec.b.data = Quote(<<>>)
    /\ codec.err = "json"

===========================================================================
